---------------------------- MODULE Spec2Model ----------------------------
(***************************************************************************)
(* LifeOS Protocol: the life:// URI resolver (LifeURIResolver) with its    *)
(* codec (parseURI / generateURI), its resolver registry, the event        *)
(* validator (validateLifeEvent) and the asynchronous resolveURI.          *)
(*                                                                         *)
(* A JavaScript string is a sequence of UTF-16 code units (naturals), so   *)
(* "life://" is <<108,105,102,101,58,47,47>>.  A JavaScript value is a     *)
(* record [t, s, n, a]: its type tag, its string content, its integer      *)
(* content and its array elements.                                         *)
(***************************************************************************)
EXTENDS Integers, Sequences, FiniteSets, TLC

(***************************************************************************)
(* Strings                                                                 *)
(***************************************************************************)
Range(q) == {q[i] : i \in 1..Len(q)}

\* String.prototype.startsWith
StartsWith(str, prefix) ==
    /\ Len(str) >= Len(prefix)
    /\ SubSeq(str, 1, Len(prefix)) = prefix

\* String.prototype.substring(from)
Substring(str, from) == SubSeq(str, from + 1, Len(str))

\* String.prototype.split(sep) for a one-unit separator: the segments between
\* the separators, the empty ones included.
RECURSIVE SplitFrom(_, _, _, _)
SplitFrom(str, sep, i, cur) ==
    IF i > Len(str) THEN <<cur>>
    ELSE IF str[i] = sep THEN <<cur>> \o SplitFrom(str, sep, i + 1, <<>>)
    ELSE SplitFrom(str, sep, i + 1, Append(cur, str[i]))

Split(str, sep) == SplitFrom(str, sep, 1, <<>>)

\* Array.prototype.filter(part => part.length > 0)
RECURSIVE FilterNonEmpty(_)
FilterNonEmpty(parts) ==
    IF parts = <<>> THEN <<>>
    ELSE IF Len(Head(parts)) > 0 THEN <<Head(parts)>> \o FilterNonEmpty(Tail(parts))
    ELSE FilterNonEmpty(Tail(parts))

\* Array.prototype.join(sep)
RECURSIVE Join(_, _)
Join(parts, sep) ==
    IF parts = <<>> THEN <<>>
    ELSE IF Len(parts) = 1 THEN parts[1]
    ELSE parts[1] \o sep \o Join(Tail(parts), sep)

IsDigit(c) == c \in 48..57
IsLower(c) == c \in 97..122
IsUpper(c) == c \in 65..90
IsHex(c) == IsDigit(c) \/ c \in 65..70 \/ c \in 97..102
HexVal(c) == IF IsDigit(c) THEN c - 48 ELSE IF c \in 65..70 THEN c - 55 ELSE c - 87
HexChar(d) == IF d < 10 THEN 48 + d ELSE 55 + d

\* "%XX" for one octet
PctByte(b) == <<37, HexChar(b \div 16), HexChar(b % 16)>>

\* The UTF-8 octets of a code point, each percent-escaped.
PctUTF8(cp) ==
    IF cp < 128 THEN PctByte(cp)
    ELSE IF cp < 2048 THEN PctByte(192 + (cp \div 64)) \o PctByte(128 + (cp % 64))
    ELSE IF cp < 65536 THEN
        PctByte(224 + (cp \div 4096)) \o PctByte(128 + ((cp \div 64) % 64))
            \o PctByte(128 + (cp % 64))
    ELSE
        PctByte(240 + (cp \div 262144)) \o PctByte(128 + ((cp \div 4096) % 64))
            \o PctByte(128 + ((cp \div 64) % 64)) \o PctByte(128 + (cp % 64))

\* uriUnreserved of encodeURIComponent: letters, digits and - _ . ! ~ * ' ( )
IsUnreserved(c) ==
    \/ IsDigit(c) \/ IsLower(c) \/ IsUpper(c)
    \/ c \in {45, 95, 46, 33, 126, 42, 39, 40, 41}

IsHighSurrogate(c) == c \in 55296..56319
IsLowSurrogate(c) == c \in 56320..57343

\* The mark a failed encoding or decoding leaves in its output (URIError).
URIErrorMark == <<-1>>

\* encodeURIComponent (ECMAScript Encode): unreserved units are kept, every
\* other code point is written as the percent-escapes of its UTF-8 octets; a
\* lone surrogate is a URIError.
RECURSIVE EncodeFrom(_, _)
EncodeFrom(str, k) ==
    IF k > Len(str) THEN <<>>
    ELSE LET c == str[k] IN
        IF IsUnreserved(c) THEN <<c>> \o EncodeFrom(str, k + 1)
        ELSE IF IsLowSurrogate(c) THEN URIErrorMark
        ELSE IF IsHighSurrogate(c) THEN
            IF k + 1 > Len(str) \/ ~IsLowSurrogate(str[k + 1]) THEN URIErrorMark
            ELSE PctUTF8((c - 55296) * 1024 + (str[k + 1] - 56320) + 65536)
                     \o EncodeFrom(str, k + 2)
        ELSE PctUTF8(c) \o EncodeFrom(str, k + 1)

\* A faulty encodeURIComponent: the string is left as it is.
encodeURIComponent_Unescaped(str) == str

encodeURIComponent(str) == EncodeFrom(str, 1)

\* Whether an encoding or a decoding completed without URIError.
NoURIError(str) == -1 \notin Range(str)

\* The octet of the escape at str[k..k+2], or -1 when that is no "%XX".
EscapeAt(str, k) ==
    IF k + 2 <= Len(str) /\ str[k] = 37 /\ IsHex(str[k + 1]) /\ IsHex(str[k + 2])
    THEN 16 * HexVal(str[k + 1]) + HexVal(str[k + 2])
    ELSE -1

\* The number of leading 1 bits of an octet (0 for ASCII, 1 for a
\* continuation octet, 2..4 for a lead octet, 5 for an invalid one).
LeadOnes(b) ==
    IF b < 128 THEN 0 ELSE IF b < 192 THEN 1 ELSE IF b < 224 THEN 2
    ELSE IF b < 240 THEN 3 ELSE IF b < 248 THEN 4 ELSE 5

IsContinuation(b) == b \in 128..191

\* The code point of the n-octet UTF-8 sequence escaped at str[k..], or -1
\* when the octets are no valid UTF-8 encoding of a code point.
CodePointAt(str, k, n) ==
    LET b1 == EscapeAt(str, k)
        b2 == EscapeAt(str, k + 3)
        b3 == EscapeAt(str, k + 6)
        b4 == EscapeAt(str, k + 9)
    IN  IF n = 2 THEN
            IF ~IsContinuation(b2) THEN -1
            ELSE LET cp == (b1 - 192) * 64 + (b2 - 128)
                 IN IF cp < 128 THEN -1 ELSE cp
        ELSE IF n = 3 THEN
            IF ~IsContinuation(b2) \/ ~IsContinuation(b3) THEN -1
            ELSE LET cp == (b1 - 224) * 4096 + (b2 - 128) * 64 + (b3 - 128)
                 IN IF cp < 2048 \/ cp \in 55296..57343 THEN -1 ELSE cp
        ELSE
            IF ~IsContinuation(b2) \/ ~IsContinuation(b3) \/ ~IsContinuation(b4)
            THEN -1
            ELSE LET cp == (b1 - 240) * 262144 + (b2 - 128) * 4096
                               + (b3 - 128) * 64 + (b4 - 128)
                 IN IF cp < 65536 \/ cp > 1114111 THEN -1 ELSE cp

\* The UTF-16 code units of a code point.
UTF16(cp) ==
    IF cp < 65536 THEN <<cp>>
    ELSE <<55296 + ((cp - 65536) \div 1024), 56320 + ((cp - 65536) % 1024)>>

\* decodeURIComponent (ECMAScript Decode with an empty reserved set): a unit
\* other than '%' is kept; '%' must start the escapes of one UTF-8 encoded
\* code point, else URIError.
RECURSIVE DecodeFrom(_, _)
DecodeFrom(str, k) ==
    IF k > Len(str) THEN <<>>
    ELSE IF str[k] # 37 THEN <<str[k]>> \o DecodeFrom(str, k + 1)
    ELSE LET b == EscapeAt(str, k)
             n == LeadOnes(b)
         IN IF b = -1 THEN URIErrorMark
            ELSE IF n = 0 THEN <<b>> \o DecodeFrom(str, k + 3)
            ELSE IF n = 1 \/ n > 4 THEN URIErrorMark
            ELSE LET cp == CodePointAt(str, k, n)
                 IN IF cp = -1 THEN URIErrorMark
                    ELSE UTF16(cp) \o DecodeFrom(str, k + 3 * n)

decodeURIComponent(str) == DecodeFrom(str, 1)

\* /^\d{4}-\d{2}-\d{2}$/.test(str)
IsDateFormat(str) ==
    /\ Len(str) = 10
    /\ \A i \in {1, 2, 3, 4, 6, 7, 9, 10} : IsDigit(str[i])
    /\ str[5] = 45
    /\ str[8] = 45

\* /^\d{4}-\d{2}-\d{2}T\d{2}:\d{2}:\d{2}/.test(str): a prefix match
IsTimestampFormat(str) ==
    /\ Len(str) >= 19
    /\ \A i \in {1, 2, 3, 4, 6, 7, 9, 10, 12, 13, 15, 16, 18, 19} : IsDigit(str[i])
    /\ str[5] = 45 /\ str[8] = 45
    /\ str[11] = 84
    /\ str[14] = 58 /\ str[17] = 58

\* /^[a-z]+\.[a-z]+$/.test(str)
IsTypeFormat(str) ==
    \E p \in 2..(Len(str) - 1) :
        /\ str[p] = 46
        /\ \A i \in (1..Len(str)) \ {p} : IsLower(str[i])

\* The decimal digits of a natural number.
RECURSIVE Digits(_)
Digits(n) == IF n < 10 THEN <<48 + n>> ELSE Digits(n \div 10) \o <<48 + (n % 10)>>

(***************************************************************************)
(* JavaScript values                                                       *)
(***************************************************************************)
JSValue(t, s, n, a) == [t |-> t, s |-> s, n |-> n, a |-> a]

Undefined == JSValue("undefined", <<>>, 0, <<>>)
Null == JSValue("null", <<>>, 0, <<>>)
Str(s) == JSValue("string", s, 0, <<>>)
\* An integer number; Half(n) is n + 0.5 and NaN the not-a-number.
Num(n) == JSValue("number", <<>>, n, <<>>)
Half(n) == JSValue("number", <<46, 53>>, n, <<>>)
NaN == JSValue("number", <<78, 97, 78>>, 0, <<>>)
Arr(a) == JSValue("array", <<>>, 0, a)
\* A plain object whose content is not looked at.
Obj == JSValue("object", <<>>, 0, <<>>)
\* The function value number n.
Fn(n) == JSValue("function", <<>>, n, <<>>)

IsNaN(v) == v.t = "number" /\ v.s = <<78, 97, 78>>

\* ToBoolean: undefined, null, "", 0 and NaN are falsy.
Truthy(v) ==
    CASE v.t \in {"undefined", "null"} -> FALSE
      [] v.t = "string" -> Len(v.s) > 0
      [] v.t = "number" -> ~IsNaN(v) /\ ~(v.n = 0 /\ v.s = <<>>)
      [] OTHER -> TRUE

\* JSToString of a value that is no array.
ScalarToString(v) ==
    CASE v.t = "string" -> v.s
      [] v.t = "undefined" -> <<117,110,100,101,102,105,110,101,100>>
      [] v.t = "null" -> <<110,117,108,108>>
      [] v.t = "number" ->
            IF IsNaN(v) THEN v.s
            ELSE (IF v.n < 0 THEN <<45>> \o Digits(-v.n) ELSE Digits(v.n)) \o v.s
      [] v.t = "function" -> <<102>> \o Digits(v.n)
      [] OTHER -> <<91,111,98,106,101,99,116,32,79,98,106,101,99,116,93>>

\* Array.prototype.toString: the elements joined by ",", undefined and null
\* as the empty string.
RECURSIVE ArrayToString(_)
ArrayToString(a) ==
    IF a = <<>> THEN <<>>
    ELSE LET h == IF Head(a).t \in {"undefined", "null"} THEN <<>>
                  ELSE ScalarToString(Head(a))
         IN IF Len(a) = 1 THEN h ELSE h \o <<44>> \o ArrayToString(Tail(a))

\* JSToString, as a template literal, RegExp.prototype.test and
\* encodeURIComponent apply it to their argument.
JSToString(v) == IF v.t = "array" THEN ArrayToString(v.a) ELSE ScalarToString(v)

\* Number.isInteger
IsInteger(v) == v.t = "number" /\ v.s = <<>>

(***************************************************************************)
(* Errors: the constructor's name, the message template that the throw     *)
(* statement fills (rule) and the value it fills in (arg).  The error that *)
(* resolveURI's catch block builds also carries the URI and the rule of    *)
(* the message it embeds.                                                  *)
(***************************************************************************)
NoError == [name |-> "", rule |-> "", arg |-> <<>>, uri |-> <<>>, cause |-> ""]

Error(rule, arg) ==
    [name |-> "Error", rule |-> rule, arg |-> arg, uri |-> <<>>, cause |-> ""]

\* What the engine throws for a property read or a call on a value that
\* does not have it.
TypeError == [name |-> "TypeError", rule |-> "TypeError", arg |-> <<>>,
              uri |-> <<>>, cause |-> ""]

\* What encodeURIComponent and decodeURIComponent throw.
URIError == [name |-> "URIError", rule |-> "URIMalformed", arg |-> <<>>,
             uri |-> <<>>, cause |-> ""]

(***************************************************************************)
(* URI codec                                                               *)
(***************************************************************************)
LifePrefix == <<108,105,102,101,58,47,47>>

\* A faulty PathSegments: the empty segments are kept.
PathSegments_Unfiltered(path) == Split(path, 47)

\* A faulty PathSegments: only the empty segments at the two ends are
\* dropped.
PathSegments_EndsTrimmed(path) ==
    LET p == Split(path, 47)
        full == {i \in 1..Len(p) : p[i] # <<>>}
    IN IF full = {} THEN <<>>
       ELSE SubSeq(p, CHOOSE i \in full : \A j \in full : i <= j,
                      CHOOSE i \in full : \A j \in full : i >= j)

\* path.split('/').filter(part => part.length > 0)
PathSegments(path) == FilterNonEmpty(Split(path, 47))

ParseFailure(e, uri) ==
    [ok |-> FALSE, err |-> e, date |-> <<>>, source |-> <<>>, type |-> <<>>,
     slug |-> <<>>, full |-> uri]

\* LifeURIResolver.parseURI(uri), uri any value.
parseURI(uri) ==
    IF uri.t # "string" THEN ParseFailure(TypeError, <<>>)
    ELSE IF ~StartsWith(uri.s, LifePrefix)
    THEN ParseFailure(Error("InvalidURIFormat", <<>>), uri.s)
    ELSE LET path == Substring(uri.s, 6)
             parts == PathSegments(path)
         IN IF Len(parts) < 4
            THEN ParseFailure(Error("URISegments", <<>>), uri.s)
            ELSE LET slug == decodeURIComponent(Join(SubSeq(parts, 4, Len(parts)), <<47>>))
                 IN IF ~NoURIError(slug) THEN ParseFailure(URIError, uri.s)
                    ELSE IF ~IsDateFormat(parts[1])
                    THEN ParseFailure(Error("DateFormat", <<>>), uri.s)
                    ELSE [ok |-> TRUE, err |-> NoError, date |-> parts[1],
                          source |-> parts[2], type |-> parts[3], slug |-> slug,
                          full |-> uri.s]

GenerateFailure(e) == [ok |-> FALSE, err |-> e, uri |-> <<>>]

\* LifeURIResolver.generateURI(components), components an object whose
\* date, source, type and slug are any values.
generateURI(c) ==
    IF ~Truthy(c.date) \/ ~Truthy(c.source) \/ ~Truthy(c.type) \/ ~Truthy(c.slug)
    THEN GenerateFailure(Error("MissingComponents", <<>>))
    ELSE IF ~IsDateFormat(JSToString(c.date))
    THEN GenerateFailure(Error("DateFormat", <<>>))
    ELSE LET encodedSlug == encodeURIComponent(JSToString(c.slug))
         IN IF ~NoURIError(encodedSlug) THEN GenerateFailure(URIError)
            ELSE [ok |-> TRUE, err |-> NoError,
                  uri |-> LifePrefix \o JSToString(c.date) \o <<47>>
                            \o JSToString(c.source) \o <<47>> \o JSToString(c.type)
                            \o <<47>> \o encodedSlug]

(***************************************************************************)
(* Events and the event validator                                          *)
(***************************************************************************)
\* An object with none of the fields the program reads; a field that an
\* event does not have reads as undefined.
EmptyEvent ==
    [kind |-> "object", timestamp |-> Undefined, source |-> Undefined,
     type |-> Undefined, title |-> Undefined, linked_uris |-> Undefined,
     mood |-> Undefined, duration |-> Undefined, uri |-> Undefined,
     metadata |-> Undefined, created_at |-> Undefined]

\* What a callback that returns nothing hands back.
UndefinedEvent == [EmptyEvent EXCEPT !.kind = "undefined"]

\* const required = ['timestamp', 'source', 'type', 'title']
RequiredFields == <<"timestamp", "source", "type", "title">>

\* The name of a field as the string the message embeds.
FieldName(f) ==
    CASE f = "timestamp" -> <<116,105,109,101,115,116,97,109,112>>
      [] f = "source" -> <<115,111,117,114,99,101>>
      [] f = "type" -> <<116,121,112,101>>
      [] f = "title" -> <<116,105,116,108,101>>

\* The required loop: the index of the first required field that is falsy,
\* or 0 when every one is truthy.
FirstFalsyRequired(event) ==
    IF \E i \in 1..Len(RequiredFields) : ~Truthy(event[RequiredFields[i]])
    THEN CHOOSE i \in 1..Len(RequiredFields) :
            /\ ~Truthy(event[RequiredFields[i]])
            /\ \A j \in 1..(i - 1) : Truthy(event[RequiredFields[j]])
    ELSE 0

\* The linked_uris loop: the index of the first element the loop throws at,
\* or 0 when it runs to its end.
FirstBadLink(a) ==
    IF \E i \in 1..Len(a) : a[i].t # "string" \/ ~StartsWith(a[i].s, LifePrefix)
    THEN CHOOSE i \in 1..Len(a) :
            /\ a[i].t # "string" \/ ~StartsWith(a[i].s, LifePrefix)
            /\ \A j \in 1..(i - 1) : a[j].t = "string" /\ StartsWith(a[j].s, LifePrefix)
    ELSE 0

\* The linked_uris rule: skipped unless the field is truthy and an array.
LinkedURIsRule(event) ==
    IF Truthy(event.linked_uris) /\ event.linked_uris.t = "array"
    THEN LET i == FirstBadLink(event.linked_uris.a)
         IN IF i = 0 THEN NoError
            ELSE IF event.linked_uris.a[i].t # "string" THEN TypeError
            ELSE Error("InvalidLinkedURI", event.linked_uris.a[i].s)
    ELSE NoError

\* A faulty MoodRule: the rule is skipped for every falsy mood, 0 included.
MoodRule_FalsySkipped(event) ==
    IF Truthy(event.mood)
       /\ (~IsInteger(event.mood) \/ event.mood.n < 1 \/ event.mood.n > 10)
    THEN Error("InvalidMood", JSToString(event.mood))
    ELSE NoError

\* The mood rule.
MoodRule(event) ==
    IF event.mood # Undefined
       /\ (~IsInteger(event.mood) \/ event.mood.n < 1 \/ event.mood.n > 10)
    THEN Error("InvalidMood", JSToString(event.mood))
    ELSE NoError

\* The duration rule.
DurationRule(event) ==
    IF event.duration # Undefined
       /\ (~IsInteger(event.duration) \/ event.duration.n < 0)
    THEN Error("InvalidDuration", JSToString(event.duration))
    ELSE NoError

\* LifeURIResolver.validateLifeEvent(event): the error of the first throw
\* statement reached, or NoError when the function returns.
validateLifeEvent(event) ==
    IF event.kind # "object" THEN TypeError
    ELSE IF FirstFalsyRequired(event) # 0
    THEN Error("MissingField", FieldName(RequiredFields[FirstFalsyRequired(event)]))
    ELSE IF ~IsTimestampFormat(JSToString(event.timestamp))
    THEN Error("InvalidTimestamp", JSToString(event.timestamp))
    ELSE IF ~IsTypeFormat(JSToString(event.type))
    THEN Error("InvalidType", JSToString(event.type))
    ELSE IF event.source.t # "string" \/ Len(event.source.s) = 0
    THEN Error("InvalidSource", JSToString(event.source))
    ELSE IF event.title.t # "string" \/ Len(event.title.s) = 0
    THEN Error("InvalidTitle", JSToString(event.title))
    ELSE IF LinkedURIsRule(event) # NoError THEN LinkedURIsRule(event)
    ELSE IF MoodRule(event) # NoError THEN MoodRule(event)
    ELSE DurationRule(event)

(***************************************************************************)
(* The event type registry and the package-level validator                 *)
(***************************************************************************)
\* const EVENT_TYPES: the categories in the order the object literal lists
\* them, each with its actions in their order.  Every description is a
\* non-empty string.
EVENT_TYPES ==
    <<
    \* music: play, pause, skip, like, add_to_playlist
       [category |-> <<109,117,115,105,99>>,
        actions |-> <<<<112,108,97,121>>,
                      <<112,97,117,115,101>>,
                      <<115,107,105,112>>,
                      <<108,105,107,101>>,
                      <<97,100,100,95,116,111,95,112,108,97,121,108,105,115,116>>>>],
    \* calendar: meeting, reminder, birthday, travel, deadline
       [category |-> <<99,97,108,101,110,100,97,114>>,
        actions |-> <<<<109,101,101,116,105,110,103>>,
                      <<114,101,109,105,110,100,101,114>>,
                      <<98,105,114,116,104,100,97,121>>,
                      <<116,114,97,118,101,108>>,
                      <<100,101,97,100,108,105,110,101>>>>],
    \* journal: entry, mood, thought, reflection, goal
       [category |-> <<106,111,117,114,110,97,108>>,
        actions |-> <<<<101,110,116,114,121>>,
                      <<109,111,111,100>>,
                      <<116,104,111,117,103,104,116>>,
                      <<114,101,102,108,101,99,116,105,111,110>>,
                      <<103,111,97,108>>>>],
    \* fitness: workout, step, sleep, weight, nutrition
       [category |-> <<102,105,116,110,101,115,115>>,
        actions |-> <<<<119,111,114,107,111,117,116>>,
                      <<115,116,101,112>>,
                      <<115,108,101,101,112>>,
                      <<119,101,105,103,104,116>>,
                      <<110,117,116,114,105,116,105,111,110>>>>],
    \* location: arrive, depart, visit, commute
       [category |-> <<108,111,99,97,116,105,111,110>>,
        actions |-> <<<<97,114,114,105,118,101>>,
                      <<100,101,112,97,114,116>>,
                      <<118,105,115,105,116>>,
                      <<99,111,109,109,117,116,101>>>>],
    \* photo: capture, edit, share, album
       [category |-> <<112,104,111,116,111>>,
        actions |-> <<<<99,97,112,116,117,114,101>>,
                      <<101,100,105,116>>,
                      <<115,104,97,114,101>>,
                      <<97,108,98,117,109>>>>],
    \* communication: call, message, email, social
       [category |-> <<99,111,109,109,117,110,105,99,97,116,105,111,110>>,
        actions |-> <<<<99,97,108,108>>,
                      <<109,101,115,115,97,103,101>>,
                      <<101,109,97,105,108>>,
                      <<115,111,99,105,97,108>>>>],
    \* work: task, project, meeting, focus, break
       [category |-> <<119,111,114,107>>,
        actions |-> <<<<116,97,115,107>>,
                      <<112,114,111,106,101,99,116>>,
                      <<109,101,101,116,105,110,103>>,
                      <<102,111,99,117,115>>,
                      <<98,114,101,97,107>>>>],
    \* learning: course, reading, study, skill
       [category |-> <<108,101,97,114,110,105,110,103>>,
        actions |-> <<<<99,111,117,114,115,101>>,
                      <<114,101,97,100,105,110,103>>,
                      <<115,116,117,100,121>>,
                      <<115,107,105,108,108>>>>],
    \* finance: purchase, expense, income, budget
       [category |-> <<102,105,110,97,110,99,101>>,
        actions |-> <<<<112,117,114,99,104,97,115,101>>,
                      <<101,120,112,101,110,115,101>>,
                      <<105,110,99,111,109,101>>,
                      <<98,117,100,103,101,116>>>>]
    >>

\* What EVENT_TYPES[category][action] finds on the prototype chain rather
\* than in the table: EVENT_TYPES.constructor is the function Object, whose
\* name is the string "Object".
InheritedTypes ==
    {<<(<<99,111,110,115,116,114,117,99,116,111,114>>), (<<110,97,109,101>>)>>}

\* isValidEventType(eventType), eventType a string: whether
\* EVENT_TYPES[category] && EVENT_TYPES[category][action] is truthy, with
\* [category, action] = eventType.split('.'); an action that the split does
\* not yield is undefined and is looked up as the key "undefined".
isValidEventType(eventType) ==
    LET parts == Split(eventType, 46)
        category == parts[1]
        action == IF Len(parts) >= 2 THEN parts[2] ELSE JSToString(Undefined)
    IN \/ \E i \in 1..Len(EVENT_TYPES) :
             /\ EVENT_TYPES[i].category = category
             /\ action \in Range(EVENT_TYPES[i].actions)
       \/ <<category, action>> \in InheritedTypes

\* The types of the categories from the i-th on, in the order of
\* Object.entries(EVENT_TYPES) and of Object.keys(actions).
RECURSIVE CategoryTypesFrom(_)
CategoryTypesFrom(i) ==
    IF i > Len(EVENT_TYPES) THEN <<>>
    ELSE [k \in 1..Len(EVENT_TYPES[i].actions) |->
             EVENT_TYPES[i].category \o <<46>> \o EVENT_TYPES[i].actions[k]]
         \o CategoryTypesFrom(i + 1)

\* getAllEventTypesList(): every `${category}.${action}` of EVENT_TYPES.
getAllEventTypesList == CategoryTypesFrom(1)

\* The value of a string of decimal digits.
RECURSIVE DigitsValue(_)
DigitsValue(s) ==
    IF s = <<>> THEN 0 ELSE 10 * DigitsValue(SubSeq(s, 1, Len(s) - 1)) + (s[Len(s)] - 48)

\* ToNumber, as < and > apply it to an operand: the integer part, whether a
\* half is added to it, and whether the result is NaN.  A string is a number
\* when it is empty or made of decimal digits.
ToNumber(v) ==
    LET str == JSToString(v)
    IN CASE v.t = "number" -> [nan |-> IsNaN(v), n |-> v.n, half |-> v.s = <<46, 53>>]
         [] v.t = "null" -> [nan |-> FALSE, n |-> 0, half |-> FALSE]
         [] v.t = "undefined" -> [nan |-> TRUE, n |-> 0, half |-> FALSE]
         [] OTHER -> IF \A i \in 1..Len(str) : IsDigit(str[i])
                     THEN [nan |-> FALSE, n |-> DigitsValue(str), half |-> FALSE]
                     ELSE [nan |-> TRUE, n |-> 0, half |-> FALSE]

\* v < k and v > k for an integer k.
LessThan(v, k) == ~ToNumber(v).nan /\ ToNumber(v).n < k
GreaterThan(v, k) ==
    /\ ~ToNumber(v).nan
    /\ IF ToNumber(v).half THEN ToNumber(v).n >= k ELSE ToNumber(v).n > k

\* errors.push(message) when the condition holds.
PushIf(condition, message) == IF condition THEN <<message>> ELSE <<>>

\* if (event.mood && (event.mood < 1 || event.mood > 10)) errors.push(...)
MoodRangeError(event) ==
    PushIf(Truthy(event.mood)
             /\ (LessThan(event.mood, 1) \/ GreaterThan(event.mood, 10)),
           "Mood must be between 1 and 10")

\* validateLifeOSEvent(event) of the package entry point: the error thrown,
\* if any, and otherwise the list of messages and isValid.
validateLifeOSEvent(event) ==
    IF event.kind # "object" \/ (Truthy(event.type) /\ event.type.t # "string")
    THEN [err |-> TypeError, isValid |-> FALSE, errors |-> <<>>]
    ELSE LET errors ==
                 PushIf(~Truthy(event.title), "Title is required")
              \o PushIf(~Truthy(event.type), "Type is required")
              \o PushIf(~Truthy(event.source), "Source is required")
              \o PushIf(~Truthy(event.timestamp), "Timestamp is required")
              \o PushIf(~Truthy(event.uri), "URI is required")
              \o PushIf(Truthy(event.type) /\ ~isValidEventType(event.type.s),
                        "Invalid event type")
              \o PushIf(~parseURI(event.uri).ok, "Invalid URI format")
              \o MoodRangeError(event)
         IN [err |-> NoError, isValid |-> Len(errors) = 0, errors |-> errors]

(***************************************************************************)
(* The command-line validator: class LifeEventValidator and main           *)
(***************************************************************************)
\* What JSON.parse gives for the text "null".
NullEvent == [EmptyEvent EXCEPT !.kind = "null"]

\* The number of days from 1970-01-01 to the day y-m-d.
DaysFromCivil(y, m, d) ==
    LET yy == IF m <= 2 THEN y - 1 ELSE y
        era == yy \div 400
        yoe == yy - era * 400
        doy == (153 * (IF m > 2 THEN m - 3 ELSE m + 9) + 2) \div 5 + d - 1
        doe == yoe * 365 + yoe \div 4 - yoe \div 100 + doy
    IN era * 146097 + doe - 719468

\* The number of days of month m of year y.
DaysInMonth(y, m) ==
    IF m \in {4, 6, 9, 11} THEN 30
    ELSE IF m # 2 THEN 31
    ELSE IF y % 4 = 0 /\ (y % 100 # 0 \/ y % 400 = 0) THEN 29 ELSE 28

\* The number that two decimal digits at position i of the string write.
TwoDigits(str, i) == (str[i] - 48) * 10 + (str[i + 1] - 48)

\* new Date(value), value a string: its time value in whole seconds, for a
\* string of the form YYYY-MM-DDTHH:MM:SSZ that names a day and a time of
\* day; any other value read here gives an Invalid Date, whose time value
\* is NaN.
DateValue(v) ==
    IF /\ v.t = "string"
       /\ Len(v.s) = 20
       /\ IsTimestampFormat(v.s)
       /\ v.s[20] = 90
       /\ TwoDigits(v.s, 6) \in 1..12
       /\ TwoDigits(v.s, 9) \in 1..DaysInMonth(TwoDigits(v.s, 1) * 100 + TwoDigits(v.s, 3),
                                               TwoDigits(v.s, 6))
       /\ TwoDigits(v.s, 12) \in 0..23
       /\ TwoDigits(v.s, 15) \in 0..59
       /\ TwoDigits(v.s, 18) \in 0..59
    THEN [nan |-> FALSE,
          t |-> ((DaysFromCivil(TwoDigits(v.s, 1) * 100 + TwoDigits(v.s, 3),
                                TwoDigits(v.s, 6), TwoDigits(v.s, 9)) * 24
                    + TwoDigits(v.s, 12)) * 60 + TwoDigits(v.s, 15)) * 60
                 + TwoDigits(v.s, 18)]
    ELSE [nan |-> TRUE, t |-> 0]

\* this.errors.push(error.message) for the error the try block caught, if
\* there is one.
CaughtMessage(error) == PushIf(error # NoError, error.rule)

\* try { this.resolver.validateLifeEvent(event) } catch (error) {
\*   this.errors.push(error.message) }
ResolverErrors(event) == CaughtMessage(validateLifeEvent(event))

\* validateEventType: the warning, for an event whose type is falsy or a
\* string.
TypeWarnings(event) ==
    PushIf(Truthy(event.type) /\ ~isValidEventType(event.type.s),
           "not in the standard registry")

\* validateMetadata
MetadataErrors(event) ==
    PushIf(Truthy(event.metadata) /\ event.metadata.t \notin {"object", "array", "null"},
           "Metadata must be an object")

\* The loop of validateLinkedURIs: one message for every element that
\* parseURI throws at.
RECURSIVE LinkErrors(_)
LinkErrors(a) ==
    IF a = <<>> THEN <<>>
    ELSE PushIf(~parseURI(Head(a)).ok, "Invalid linked URI") \o LinkErrors(Tail(a))

\* A faulty LinkedURIsErrors: the elements are tested for the prefix only.
LinkedURIsErrors_PrefixOnly(event) ==
    IF ~Truthy(event.linked_uris) THEN <<>>
    ELSE IF event.linked_uris.t # "array" THEN <<"linked_uris must be an array">>
    ELSE PushIf(FirstBadLink(event.linked_uris.a) # 0, "Invalid linked URI")

\* validateLinkedURIs
LinkedURIsErrors(event) ==
    IF ~Truthy(event.linked_uris) THEN <<>>
    ELSE IF event.linked_uris.t # "array" THEN <<"linked_uris must be an array">>
    ELSE LinkErrors(event.linked_uris.a)

\* validateTimestamps: created < timestamp compares the two time values,
\* and is false when one of them is NaN.
TimestampWarnings(event) ==
    PushIf(/\ Truthy(event.created_at) /\ Truthy(event.timestamp)
           /\ ~DateValue(event.created_at).nan /\ ~DateValue(event.timestamp).nan
           /\ DateValue(event.created_at).t < DateValue(event.timestamp).t,
           "created_at is before timestamp")

\* What validateEvent leaves and returns, given what its try block pushed
\* and what the four further validations push when none of them throws.
validateEventEnd(event, caught, errors, warnings) ==
    IF event.kind # "object" \/ (Truthy(event.type) /\ event.type.t # "string")
    THEN [err |-> TypeError, returned |-> FALSE, errors |-> caught, warnings |-> <<>>]
    ELSE [err |-> NoError, returned |-> Len(caught \o errors) = 0,
          errors |-> caught \o errors, warnings |-> warnings]

\* LifeEventValidator.validateEvent(event): the error it throws, if any, the
\* value it returns, and this.errors and this.warnings as it leaves them.
\* validateEventType throws a TypeError when it reads the type of null or
\* splits a type that is no string; the list of errors then holds what the
\* resolver's validation has pushed.
validateEvent(event) ==
    validateEventEnd(event, ResolverErrors(event),
                     MetadataErrors(event) \o LinkedURIsErrors(event),
                     TypeWarnings(event) \o TimestampWarnings(event))

\* getResults(): its valid field.
getResultsValid(v) == Len(v.errors) = 0

\* process.exit(isValid ? 0 : 1) after validateEvent, or process.exit(1)
\* in the catch block when validateEvent threw.
exitAfter(r) ==
    [validator |-> [errors |-> r.errors, warnings |-> r.warnings],
     exit |-> IF r.err # NoError THEN 1 ELSE IF r.returned THEN 0 ELSE 1]

\* The try block that main's two branches share: the text is read and
\* parsed, the event validated and the process exits with 0 or 1; what the
\* block throws (readFileSync, JSON.parse or validateEvent) is caught and
\* the process exits with 1.  input tells whether the text can be read
\* ("unreadable"), is no JSON ("garbage") or is the JSON text of the event.
\* The validator is given as the run leaves it.
runValidation(v, input, event) ==
    IF input # "json" THEN [validator |-> v, exit |-> 1]
    ELSE exitAfter(validateEvent(event))


(***************************************************************************)
(* Resolver registry: this.resolvers, a Map.  A Map keeps its entries in   *)
(* insertion order, one per key; it is the sequence of its entries.        *)
(***************************************************************************)
\* Map.prototype.has
MapHas(map, key) == \E i \in 1..Len(map) : map[i].key = key

\* A faulty MapGet: the value of the first entry, whatever the key.
MapGet_FirstEntry(map, key) == IF map = <<>> THEN Undefined ELSE map[1].value

\* Map.prototype.get: the value under the key, or undefined.
MapGet(map, key) ==
    IF MapHas(map, key)
    THEN (map[CHOOSE i \in 1..Len(map) : map[i].key = key]).value
    ELSE Undefined

\* A faulty MapSet: an existing key keeps its first value.
MapSet_KeepFirst(map, key, value) ==
    IF MapHas(map, key) THEN map ELSE Append(map, [key |-> key, value |-> value])

\* A faulty MapSet: every call adds an entry.
MapSet_AlwaysAppend(map, key, value) == Append(map, [key |-> key, value |-> value])

\* Map.prototype.set: the value of an existing key is replaced where it
\* stands, a new key is added at the end.
MapSet(map, key, value) ==
    IF MapHas(map, key)
    THEN [i \in 1..Len(map) |->
            IF map[i].key = key THEN [key |-> key, value |-> value] ELSE map[i]]
    ELSE Append(map, [key |-> key, value |-> value])

\* Array.from(map.keys())
MapKeys(map) == [i \in 1..Len(map) |-> map[i].key]

\* LifeURIResolver.registerResolver(source, resolver) on the registry map:
\* the map it leaves and the error it throws (NoError when it returns).
registerResolver(map, source, resolver) ==
    IF resolver.t # "function"
    THEN [map |-> map, err |-> Error("ResolverNotFunction", <<>>)]
    ELSE [map |-> MapSet(map, source, resolver), err |-> NoError]

\* LifeURIResolver.hasResolver(source)
hasResolver(map, source) == MapHas(map, source)

\* LifeURIResolver.getRegisteredSources()
getRegisteredSources(map) == MapKeys(map)

(***************************************************************************)
(* resolveURI                                                              *)
(***************************************************************************)
\* The function that BuiltInResolvers.memoryResolver(events) returns.
MemoryFn == Fn(0)

\* `${parsed.date}/${parsed.source}/${parsed.type}/${parsed.slug}`
MemoryKey(date, source, type, slug) ==
    date \o <<47>> \o source \o <<47>> \o type \o <<47>> \o slug

\* A faulty MemoryLookup: the slug of the key is escaped as in the URI.
MemoryLookup_EscapedKey(events, parsed) ==
    LET key == MemoryKey(parsed.date, parsed.source, parsed.type,
                         encodeURIComponent(parsed.slug))
    IN IF ~MapHas(events, key)
       THEN [threw |-> TRUE, event |-> EmptyEvent, err |-> Error("EventNotFound", key)]
       ELSE [threw |-> FALSE, event |-> MapGet(events, key), err |-> NoError]

\* The body of that function, run when it is called: the event under the
\* key, or the 'Event not found' error.  The Map holds event objects, which
\* are truthy.
MemoryLookup(events, parsed) ==
    LET key == MemoryKey(parsed.date, parsed.source, parsed.type, parsed.slug)
    IN IF ~MapHas(events, key)
       THEN [threw |-> TRUE, event |-> EmptyEvent, err |-> Error("EventNotFound", key)]
       ELSE [threw |-> FALSE, event |-> MapGet(events, key), err |-> NoError]

\* A faulty ResolutionFailure: the caught error is thrown again as it is.
ResolutionFailure_Rethrown(uri, error) == error

\* The error resolveURI's catch block throws for a caught error:
\* `Failed to resolve URI ${uri}: ${error.message}`.
ResolutionFailure(uri, error) ==
    [name |-> "Error", rule |-> "FailedToResolve", arg |-> error.arg,
     uri |-> uri, cause |-> error.rule]

\* A resolveURI call: the URI it was given, the source it parsed, the
\* callback it looked up, whether it is pending on the callback, fulfilled
\* or rejected, what the callback handed back, and the event or the error
\* the caller receives; and, for a callback that ran to its end when it was
\* invoked, the promise it settled.
Call(uri, state, source, resolver, err) ==
    [uri |-> uri, state |-> state, source |-> source, resolver |-> resolver,
     threw |-> FALSE, returned |-> EmptyEvent, value |-> EmptyEvent, err |-> err,
     settled |-> FALSE,
     promise |-> [threw |-> FALSE, event |-> EmptyEvent, err |-> NoError]]

\* A faulty resolveURIStart: the looked-up value is called without the
\* check that there is one.
resolveURIStart_Unchecked(map, uri) ==
    LET parsed == parseURI(uri)
    IN IF ~parsed.ok THEN Call(uri.s, "rejected", <<>>, Undefined, parsed.err)
       ELSE Call(uri.s, "pending", parsed.source, MapGet(map, parsed.source), NoError)

\* resolveURI up to its await: parse, look up, and either reject at once or
\* stay pending on the callback it invoked.
resolveURIStart(map, uri) ==
    LET parsed == parseURI(uri)
        resolver == MapGet(map, parsed.source)
    IN IF ~parsed.ok THEN Call(uri.s, "rejected", <<>>, Undefined, parsed.err)
       ELSE IF ~Truthy(resolver)
       THEN Call(uri.s, "rejected", parsed.source, Undefined,
                 Error("NoResolver", parsed.source))
       ELSE Call(uri.s, "pending", parsed.source, resolver, NoError)

\* resolveURI from its await on: the callback of the call has thrown
\* (outcome.threw, outcome.err) or handed back outcome.event, which is
\* validated; every throw of the try block goes through the catch block.
resolveURIResume(call, outcome) ==
    IF outcome.threw
    THEN [call EXCEPT !.state = "rejected", !.threw = TRUE,
                      !.err = ResolutionFailure(call.uri, outcome.err)]
    ELSE IF validateLifeEvent(outcome.event) # NoError
    THEN [call EXCEPT !.state = "rejected", !.returned = outcome.event,
                      !.err = ResolutionFailure(call.uri,
                                                validateLifeEvent(outcome.event))]
    ELSE [call EXCEPT !.state = "fulfilled", !.returned = outcome.event,
                      !.value = outcome.event]

(***************************************************************************)
(* Inputs                                                                  *)
(***************************************************************************)
\* The longest slug the codec is exercised with.
MaxSlugLen == 2
\* The mood and duration values the validator is exercised with are the
\* integers from -1 to MaxNumber.
MaxNumber == 11
\* The number of registerResolver calls and of resolveURI calls of a run.
MaxRegistrations == 2
MaxCalls == 2
\* The most slashes added at one place of a URI.
MaxExtraSlashes == 1

\* All strings of at most n units over an alphabet.
RECURSIVE StringsUpTo(_, _)
StringsUpTo(alphabet, n) ==
    IF n = 0 THEN {<<>>}
    ELSE LET shorter == StringsUpTo(alphabet, n - 1)
         IN shorter \cup {Append(w, c) : w \in shorter, c \in alphabet}

DateOK == <<50,48,50,53,45,48,55,45,48,57>>          \* "2025-07-09"
TimestampOK == <<50,48,50,53,45,48,55,45,48,57,84,48,57,58,48,48,58,48,48,90>>   \* "2025-07-09T09:00:00Z"
TypeOK == <<97,46,98>>                 \* "a.b"

\* "life://<date>/<source>/<type>/<slug>" written out, nothing escaped.
URI(date, source, type, slug) ==
    LifePrefix \o date \o <<47>> \o source \o <<47>> \o type \o <<47>> \o slug

\* Dates: "2025-07-09", "2025-13-40", "25-7-9", "" and a missing one.
DateInputs ==
    {Str(DateOK), Str(<<50,48,50,53,45,49,51,45,52,48>>), Str(<<50,53,45,55,45,57>>), Str(<<>>), Undefined}

\* Sources: "s", "/", "s/t", "%", "" and a missing one.
SourceInputs ==
    {Str(<<115>>), Str(<<47>>), Str(<<115,47,116>>), Str(<<37>>), Str(<<>>), Undefined}

\* Types: "a.b", "/", "a/%", "" and a number.
TypeInputs ==
    {Str(TypeOK), Str(<<47>>), Str(<<97,47,37>>), Str(<<>>), Num(7)}

\* The units slugs are made of: x + / % space, e-acute and a lone high
\* surrogate.
SlugAlphabet == {120, 43, 47, 37, 32, 233, 55357}

SlugInputs ==
    {Str(w) : w \in StringsUpTo(SlugAlphabet, MaxSlugLen)} \cup {Undefined, Num(7)}

ComponentInputs ==
    [date : DateInputs, source : SourceInputs, type : TypeInputs, slug : SlugInputs]

\* The segments of URIs that are written with extra slashes: a plain one,
\* one with a slug of two segments, one with an escaped slug ("a%2Bb") and
\* one with a malformed date.
SegmentInputs ==
    {<<DateOK, <<115>>, TypeOK, <<120>>>>,
     <<DateOK, <<115>>, TypeOK, <<120>>, <<121>>>>,
     <<DateOK, <<115>>, TypeOK, <<97,37,50,66,98>>>>,
     <<(<<50,53,45,55,45,57>>), <<115>>, TypeOK, <<120>>>>}

\* n slashes.
Slashes(n) == [i \in 1..n |-> 47]

\* The segments from the k-th on, each followed by one slash (none after the
\* last) and by extra[k] more.
RECURSIVE SlashedFrom(_, _, _)
SlashedFrom(segs, extra, k) ==
    IF k > Len(segs) THEN <<>>
    ELSE segs[k] \o (IF k < Len(segs) THEN <<47>> ELSE <<>>) \o Slashes(extra[k])
         \o SlashedFrom(segs, extra, k + 1)

\* "life://" and the segments, with extra[0] more slashes before the first
\* segment and extra[k] more after the k-th.
Slashed(segs, extra) == LifePrefix \o Slashes(extra[0]) \o SlashedFrom(segs, extra, 1)

ExtraSlashes(segs) == [0..Len(segs) -> 0..MaxExtraSlashes]

\* URIs from outside: well-formed ones, one with doubled slashes, one with a
\* slug of two segments, malformed ones, one whose slug is an escaped '%', one whose slug is a lone
\* high surrogate, and the ones written with extra slashes.
URIInputs ==
    {Str(URI(DateOK, <<115>>, TypeOK, <<120>>)),
     Str(URI(DateOK, <<116>>, TypeOK, <<120>>)),
     Str(URI(DateOK, <<47,115,47>>, <<47>> \o TypeOK, <<120>>)),
     Str(URI(DateOK, <<115>>, TypeOK, <<120,47,121>>)),
     Str(URI(<<50,48,50,53,45,49,51,45,52,48>>, <<115>>, TypeOK, <<120>>)),
     Str(URI(<<50,53,45,55,45,57>>, <<115>>, TypeOK, <<120>>)),
     Str(URI(DateOK, <<115>>, TypeOK, <<37>>)),
     Str(URI(DateOK, <<115>>, TypeOK, <<37,50,53>>)),
     Str(URI(DateOK, <<115>>, TypeOK, <<55357>>)),
     Str(LifePrefix \o DateOK \o <<47,115,47>> \o TypeOK),
     Str(<<104,116,116,112,58,47,47,50,48,50,53,45,48,55,45,48,57,47,115,47,97,46,98,47,120>>),
     Str(<<>>),
     Undefined}
    \cup UNION {{Str(Slashed(segs, extra)) : extra \in ExtraSlashes(segs)} :
                    segs \in SegmentInputs}

\* An event whose four required fields are valid.
ValidEvent(title) ==
    [EmptyEvent EXCEPT !.timestamp = Str(TimestampOK), !.source = Str(<<115>>),
                       !.type = Str(TypeOK), !.title = Str(title)]

\* Events that are valid in every field but carry a type of the standard
\* taxonomy, one for each type.
TaxonomyEventInputs ==
    {[ValidEvent(<<116>>) EXCEPT !.type = Str(getAllEventTypesList[k])] :
        k \in 1..Len(getAllEventTypesList)}

TimestampInputs == {Str(TimestampOK), Str(DateOK), Str(<<>>), Num(7), Undefined}
EventSourceInputs == {Str(<<115>>), Str(<<>>), Num(7), Undefined}
EventTypeInputs == {Str(TypeOK), Str(<<65,46,98>>), Str(<<>>), Undefined}
TitleInputs == {Str(<<116>>), Str(<<>>), Num(0), Undefined}

LinkOK == URI(DateOK, <<115>>, TypeOK, <<120>>)
\* linked_uris: none, arrays (empty, of valid links, with "life://x", with
\* "http://x", with a number), and values that are no array.
LinkedURIsInputs ==
    {Undefined, Arr(<<>>), Arr(<<Str(LinkOK)>>),
     Arr(<<Str(LinkOK), Str(<<108,105,102,101,58,47,47,120>>)>>),
     Arr(<<Str(LinkOK), Str(<<104,116,116,112,58,47,47,120>>)>>), Arr(<<Num(7)>>),
     Str(LinkOK), Str(<<104,116,116,112,58,47,47,120>>), Str(<<>>), Obj, Num(7), Null}

NumberInputs ==
    {Num(n) : n \in -1..MaxNumber} \cup {Half(5), NaN, Str(<<53>>), Null, Undefined}

\* Events: every combination of the required fields with the optional ones
\* absent or valid, and every choice of the optional fields with the
\* required ones valid; and what is no object.
EventInputs ==
    {[EmptyEvent EXCEPT !.timestamp = ts, !.source = so, !.type = ty, !.title = ti,
                        !.linked_uris = lu, !.mood = mo, !.duration = mo] :
        ts \in TimestampInputs, so \in EventSourceInputs, ty \in EventTypeInputs,
        ti \in TitleInputs, lu \in {Undefined, Arr(<<Str(LinkOK)>>)},
        mo \in {Undefined, Num(5)}}
    \cup {[ValidEvent(<<116>>) EXCEPT !.linked_uris = lu, !.mood = mo, !.duration = du] :
        lu \in LinkedURIsInputs, mo \in NumberInputs, du \in {Undefined, Num(0), Num(-1)}}
    \cup {[ValidEvent(<<116>>) EXCEPT !.duration = du] : du \in NumberInputs}
    \cup {UndefinedEvent}

\* The registerResolver calls made: source "s" with either of two functions
\* or with something that is no function, and source "t" with a function.
RegistrySources == {<<115>>, <<116>>}
RegisterInputs ==
    {<<(<<115>>), Fn(1)>>, <<(<<115>>), Fn(2)>>, <<(<<115>>), Undefined>>,
     <<(<<116>>), Fn(1)>>}

\* What a callback does when it is invoked: it hands back an event that
\* carries its number as the title, or it throws.  Function 1 hands back a
\* valid event or one without timestamp, or throws; function 2 hands back a
\* valid event or one with a linked_uris that is a string.
Outcome(threw, event, err) == [threw |-> threw, event |-> event, err |-> err]

CallbackOutcomes(fn) ==
    LET e == ValidEvent(Digits(fn.n))
    IN IF fn.n = 1
       THEN {Outcome(FALSE, e, NoError),
             Outcome(FALSE, [e EXCEPT !.timestamp = Undefined], NoError),
             Outcome(TRUE, EmptyEvent, Error("EventNotFound", Digits(fn.n)))}
       ELSE {Outcome(FALSE, e, NoError),
             Outcome(FALSE, [e EXCEPT !.linked_uris = Str(LinkOK)], NoError)}

\* The URIs resolveURI is called with: one of source "s" and one of three
\* segments.
ResolveInputs ==
    {Str(URI(DateOK, <<115>>, TypeOK, <<120>>)),
     Str(LifePrefix \o DateOK \o <<47,115,47>> \o TypeOK)}

TypeMusicPlay == <<109,117,115,105,99,46,112,108,97,121>>      \* "music.play"

\* Types for the package-level validator: "music.play", "a.b", "music",
\* "constructor.name", a missing one and a number.
PackageTypeInputs ==
    {Str(TypeMusicPlay), Str(TypeOK), Str(<<109,117,115,105,99>>),
     Str(<<99,111,110,115,116,114,117,99,116,111,114,46,110,97,109,101>>),
     Undefined, Num(7)}

\* Events for the package-level validator: every combination of title,
\* type, source, timestamp, uri and mood, and what is no object.
PackageEventInputs ==
    {[EmptyEvent EXCEPT !.title = ti, !.type = ty, !.source = so, !.timestamp = ts,
                        !.uri = u, !.mood = mo] :
        ti \in {Str(<<116>>), Undefined}, ty \in PackageTypeInputs,
        so \in {Str(<<115>>), Str(<<>>)}, ts \in {Str(TimestampOK), Undefined},
        u \in {Str(LinkOK), Str(LifePrefix \o <<120>>), Undefined},
        mo \in NumberInputs}
    \cup {UndefinedEvent}

\* Components for the memory resolver: slug "a+b" of source "s" and of
\* source "s/t".
MemoryComponentInputs ==
    {[date |-> Str(DateOK), source |-> Str(so), type |-> Str(TypeOK),
      slug |-> Str(<<97,43,98>>)] : so \in {<<115>>, <<115,47,116>>}}

\* The key the example stores an event under, written from the components
\* as they are, and the event it stores.
KeyOf(c) == MemoryKey(c.date.s, c.source.s, c.type.s, c.slug.s)
EventOf(c) == [ValidEvent(c.slug.s) EXCEPT !.source = c.source, !.mood = Num(8)]

\* Events for the CLI validator: the JSON value null, and objects with a
\* timestamp or none; a type of the registry, one outside it, an array, a
\* number or none; a title or an empty one; no metadata, an object or a
\* string; linked_uris absent, of a full URI, of "life://x", of a full URI
\* and one with a malformed date, of a number, or a string; created_at
\* absent, an hour before the timestamp or an hour after it; and a mood of
\* 11 or none.
CliEventInputs ==
    {[ValidEvent(ti) EXCEPT !.timestamp = ts, !.type = ty, !.metadata = md,
                            !.linked_uris = lu, !.created_at = ca, !.mood = mo] :
        ts \in {Str(TimestampOK), Undefined},
        ty \in {Str(TypeMusicPlay), Str(TypeOK), Arr(<<Str(TypeMusicPlay)>>), Num(7),
                Undefined},
        ti \in {<<116>>, <<>>},
        md \in {Undefined, Obj, Str(<<109>>)},
        lu \in {Undefined, Arr(<<Str(LinkOK)>>), Arr(<<Str(LifePrefix \o <<120>>)>>),
                Arr(<<Str(LinkOK),
                      Str(URI(<<50,53,45,55,45,57>>, <<115>>, TypeOK, <<120>>))>>),
                Arr(<<Num(7)>>), Str(LinkOK)},
        ca \in {Undefined,
                Str(<<50,48,50,53,45,48,55,45,48,57,84,48,56,58,48,48,58,48,48,90>>),
                Str(<<50,48,50,53,45,48,55,45,48,57,84,49,48,58,48,48,58,48,48,90>>)},
        mo \in {Undefined, Num(11)}}
    \cup {NullEvent}

\* Runs of the CLI: without or with an argument; with a terminal as
\* standard input and a file that is missing, cannot be read, holds no JSON
\* or holds an event, or with piped input that is no JSON or an event.
ProcessInputs ==
    {[at |-> "start", args |-> n, isTTY |-> TRUE, input |-> i, event |-> EmptyEvent] :
        n \in {0, 1}, i \in {"missing", "unreadable", "garbage"}}
    \cup {[at |-> "start", args |-> n, isTTY |-> FALSE, input |-> "garbage",
           event |-> EmptyEvent] : n \in {0, 1}}
    \cup {[at |-> "start", args |-> n, isTTY |-> tty, input |-> "json", event |-> e] :
        n \in {0, 1}, tty \in BOOLEAN, e \in CliEventInputs}

(***************************************************************************)
(* State                                                                   *)
(***************************************************************************)
VARIABLES
    resolvers,      \* this.resolvers
    regLog,         \* every registerResolver call so far: source, value, error
    calls,          \* every resolveURI call so far, in the order they began
    invoked,        \* every callback invocation so far: the function, the call
    query,          \* the synchronous operation just answered: arguments, result
    memoryEvents,   \* the Map handed to BuiltInResolvers.memoryResolver
    validator,      \* the LifeEventValidator of the CLI: errors, warnings
    exitCode,       \* the exit code of the CLI process, -1 while it runs
    process         \* the CLI process: its arguments and input, where it is

vars ==
    <<resolvers, regLog, calls, invoked, query, memoryEvents, validator, exitCode,
      process>>

\* What the resolver object's operations never touch.
outside == <<memoryEvents, validator, exitCode, process>>

NoComponents ==
    [date |-> Undefined, source |-> Undefined, type |-> Undefined, slug |-> Undefined]

NoQuery ==
    [op |-> "none", arg |-> Undefined, comps |-> NoComponents, event |-> EmptyEvent,
     err |-> NoError, parsed |-> ParseFailure(NoError, <<>>), str |-> <<>>,
     flag |-> FALSE, list |-> <<>>, errors |-> <<>>]

\* No CLI process.
NoProcess ==
    [at |-> "none", args |-> 0, isTTY |-> TRUE, input |-> "missing", event |-> EmptyEvent]

\* A LifeEventValidator as its constructor leaves it.
NoValidator == [errors |-> <<>>, warnings |-> <<>>]

\* constructor(): this.resolvers = new Map()
Init ==
    /\ resolvers = <<>>
    /\ regLog = <<>>
    /\ calls = <<>>
    /\ invoked = <<>>
    /\ query = NoQuery
    /\ memoryEvents = <<>>
    /\ validator = NoValidator
    /\ exitCode = -1
    /\ process = NoProcess

(***************************************************************************)
(* Operations                                                              *)
(***************************************************************************)
ParseURI(uri) ==
    /\ query' = [NoQuery EXCEPT !.op = "parseURI", !.arg = uri,
                                !.parsed = parseURI(uri), !.err = parseURI(uri).err]
    /\ UNCHANGED <<resolvers, regLog, calls, invoked, outside>>

GenerateURI(c) ==
    /\ query' = [NoQuery EXCEPT !.op = "generateURI", !.comps = c,
                                !.str = generateURI(c).uri, !.err = generateURI(c).err]
    /\ UNCHANGED <<resolvers, regLog, calls, invoked, outside>>

\* generateURI(parseURI(u)): the components parseURI has just returned are
\* given to generateURI.
GenerateParsed ==
    /\ query.op = "parseURI"
    /\ query.parsed.ok
    /\ LET c == [date |-> Str(query.parsed.date), source |-> Str(query.parsed.source),
                 type |-> Str(query.parsed.type), slug |-> Str(query.parsed.slug)]
       IN query' = [query EXCEPT !.op = "generateParsed", !.comps = c,
                                 !.str = generateURI(c).uri, !.err = generateURI(c).err]
    /\ UNCHANGED <<resolvers, regLog, calls, invoked, outside>>

\* parseURI(generateURI(c)): the URI generateURI has just returned is parsed.
ParseGenerated ==
    /\ query.op \in {"generateURI", "generateParsed"}
    /\ query.err = NoError
    /\ query' = [query EXCEPT !.op = IF query.op = "generateURI" THEN "parseGenerated"
                                     ELSE "parseRegenerated",
                              !.arg = Str(query.str),
                              !.parsed = parseURI(Str(query.str)),
                              !.err = parseURI(Str(query.str)).err]
    /\ UNCHANGED <<resolvers, regLog, calls, invoked, outside>>

ValidateLifeEvent(event) ==
    /\ query' = [NoQuery EXCEPT !.op = "validateLifeEvent", !.event = event,
                                !.err = validateLifeEvent(event)]
    /\ UNCHANGED <<resolvers, regLog, calls, invoked, outside>>

ValidateLifeOSEvent(event) ==
    /\ query' = [NoQuery EXCEPT !.op = "validateLifeOSEvent", !.event = event,
                                !.err = validateLifeOSEvent(event).err,
                                !.flag = validateLifeOSEvent(event).isValid,
                                !.errors = validateLifeOSEvent(event).errors]
    /\ UNCHANGED <<resolvers, regLog, calls, invoked, outside>>

\* memoryEvents.set(key, event)
StoreEvent(key, event) ==
    /\ memoryEvents' = MapSet(memoryEvents, key, event)
    /\ UNCHANGED <<resolvers, regLog, calls, invoked, query, validator, exitCode, process>>

\* validateEvent has left r.errors and r.warnings in the validator and
\* returned or thrown.
ValidateEventReturns(event, r) ==
    /\ validator' = [errors |-> r.errors, warnings |-> r.warnings]
    /\ query' = [NoQuery EXCEPT !.op = "validateEvent", !.event = event,
                                !.err = r.err, !.flag = r.returned]

\* validator.validateEvent(event), from code that uses the class.
ValidateEvent(event) ==
    /\ ValidateEventReturns(event, validateEvent(event))
    /\ UNCHANGED <<resolvers, regLog, calls, invoked, memoryEvents, exitCode, process>>

\* validator.getResults().valid, after a call of validateEvent.
GetResults ==
    /\ query.op = "validateEvent"
    /\ query' = [query EXCEPT !.op = "getResults", !.flag = getResultsValid(validator)]
    /\ UNCHANGED <<resolvers, regLog, calls, invoked, memoryEvents, validator, exitCode,
                   process>>

\* process.exit(run.exit), the validator left as the run left it.
Exits(run) ==
    /\ process' = [process EXCEPT !.at = "exited"]
    /\ validator' = run.validator
    /\ exitCode' = run.exit

\* main(): without an argument the process exits with 1; with piped input
\* it registers its handlers and waits for the end of the input; otherwise
\* it exits with 1 when the file does not exist, and else reads, parses and
\* validates it.
Main ==
    /\ process.at = "start"
    /\ IF process.args = 0 \/ (process.isTTY /\ process.input = "missing")
       THEN Exits([validator |-> validator, exit |-> 1])
       ELSE IF ~process.isTTY
       THEN /\ process' = [process EXCEPT !.at = "waiting"]
            /\ UNCHANGED <<validator, exitCode>>
       ELSE Exits(runValidation(validator, process.input, process.event))
    /\ UNCHANGED <<resolvers, regLog, calls, invoked, query, memoryEvents>>

\* process.stdin.on('end', ...): the piped input has ended.
StdinEnd ==
    /\ process.at = "waiting"
    /\ Exits(runValidation(validator, process.input, process.event))
    /\ UNCHANGED <<resolvers, regLog, calls, invoked, query, memoryEvents>>

HasResolver(source) ==
    /\ query' = [NoQuery EXCEPT !.op = "hasResolver", !.arg = Str(source),
                                !.flag = hasResolver(resolvers, source)]
    /\ UNCHANGED <<resolvers, regLog, calls, invoked, outside>>

GetRegisteredSources ==
    /\ query' = [NoQuery EXCEPT !.op = "getRegisteredSources",
                                !.list = getRegisteredSources(resolvers)]
    /\ UNCHANGED <<resolvers, regLog, calls, invoked, outside>>

RegisterResolver(source, resolver) ==
    /\ Len(regLog) < MaxRegistrations
    /\ resolvers' = registerResolver(resolvers, source, resolver).map
    /\ regLog' = Append(regLog,
                        [source |-> source, resolver |-> resolver,
                         err |-> registerResolver(resolvers, source, resolver).err])
    /\ query' = NoQuery
    /\ UNCHANGED <<calls, invoked, outside>>

\* The callback a call looked up is invoked: the function the memory
\* resolver returned runs to its end at once, reading the Map as it is now,
\* and settles its promise; any other callback is left to complete later.
InvokeResolver(call, events, parsed) ==
    IF call.state = "pending" /\ call.resolver = MemoryFn
    THEN [call EXCEPT !.settled = TRUE, !.promise = MemoryLookup(events, parsed)]
    ELSE call

\* The call is recorded, with the invocation of its callback if it made one.
CallBegins(call) ==
    /\ calls' = Append(calls, call)
    /\ invoked' = IF call.state = "pending"
                  THEN Append(invoked, [fn |-> call.resolver, call |-> Len(calls) + 1])
                  ELSE invoked

\* resolveURI(uri) is called and runs to its await or to its first throw; the
\* callback it looked up is invoked in this step.
ResolveURI(uri) ==
    /\ Len(calls) < MaxCalls
    /\ CallBegins(InvokeResolver(resolveURIStart(resolvers, uri), memoryEvents,
                                 parseURI(uri)))
    /\ query' = NoQuery
    /\ UNCHANGED <<resolvers, regLog, outside>>

\* A faulty CallbackCompletes: the call settles with what the callback now
\* registered for its source does.
CallbackCompletes_LateLookup(i) ==
    /\ calls[i].state = "pending"
    /\ \E outcome \in CallbackOutcomes(MapGet(resolvers, calls[i].source)) :
          calls' = [calls EXCEPT ![i] = resolveURIResume(calls[i], outcome)]
    /\ query' = NoQuery
    /\ UNCHANGED <<resolvers, regLog, invoked, outside>>

\* The callback a pending call awaits completes, and resolveURI runs on to
\* its end.
CallbackCompletes(i) ==
    /\ calls[i].state = "pending"
    /\ \E outcome \in (IF calls[i].settled THEN {calls[i].promise}
                        ELSE CallbackOutcomes(calls[i].resolver)) :
          calls' = [calls EXCEPT ![i] = resolveURIResume(calls[i], outcome)]
    /\ query' = NoQuery
    /\ UNCHANGED <<resolvers, regLog, invoked, outside>>

\* The resolver object in use: registrations, resolutions and queries.
Next ==
    \/ \E r \in RegisterInputs : RegisterResolver(r[1], r[2])
    \/ \E u \in ResolveInputs : ResolveURI(u)
    \/ \E i \in 1..Len(calls) : CallbackCompletes(i)
    \/ \E s \in RegistrySources : HasResolver(s)
    \/ GetRegisteredSources
    \/ ParseURI(Str(LinkOK))
    \/ GenerateURI([date |-> Str(DateOK), source |-> Str(<<115>>),
                    type |-> Str(TypeOK), slug |-> Str(<<120>>)])
    \/ ValidateLifeEvent(ValidEvent(<<116>>))

Spec == Init /\ [][Next]_vars

\* The codec and the validator alone: one call of parseURI, generateURI
\* (and parseURI of what it returned) or validateLifeEvent, on any input.
InitCodec ==
    /\ resolvers = <<>>
    /\ regLog = <<>>
    /\ calls = <<>>
    /\ invoked = <<>>
    /\ memoryEvents = <<>>
    /\ validator = NoValidator
    /\ exitCode = -1
    /\ process = NoProcess
    /\ query \in {[NoQuery EXCEPT !.op = "call generateURI", !.comps = c] :
                      c \in ComponentInputs}
            \cup {[NoQuery EXCEPT !.op = "call parseURI", !.arg = u] : u \in URIInputs}
            \cup {[NoQuery EXCEPT !.op = "call validateLifeEvent", !.event = e] :
                      e \in EventInputs \cup TaxonomyEventInputs}

NextCodec ==
    \/ query.op = "call generateURI" /\ GenerateURI(query.comps)
    \/ ParseGenerated
    \/ query.op = "call parseURI" /\ ParseURI(query.arg)
    \/ GenerateParsed
    \/ query.op = "call validateLifeEvent" /\ ValidateLifeEvent(query.event)

SpecCodec == InitCodec /\ [][NextCodec]_vars

\* The validators outside the resolver class: one call of the package-level
\* validateLifeOSEvent on any event.
InitValidators ==
    /\ resolvers = <<>>
    /\ regLog = <<>>
    /\ calls = <<>>
    /\ invoked = <<>>
    /\ memoryEvents = <<>>
    /\ validator = NoValidator
    /\ exitCode = -1
    /\ process = NoProcess
    /\ query \in {[NoQuery EXCEPT !.op = "call validateLifeOSEvent", !.event = e] :
                      e \in PackageEventInputs}

NextValidators ==
    \/ query.op = "call validateLifeOSEvent" /\ ValidateLifeOSEvent(query.event)

SpecValidators == InitValidators /\ [][NextValidators]_vars

\* The example: the memory resolver is registered, events are stored under
\* their keys, and generated URIs are resolved, in any order.
NextMemory ==
    \/ \E c \in MemoryComponentInputs : RegisterResolver(c.source.s, MemoryFn)
    \/ \E c \in MemoryComponentInputs : StoreEvent(KeyOf(c), EventOf(c))
    \/ \E c \in MemoryComponentInputs : ResolveURI(Str(generateURI(c).uri))
    \/ \E i \in 1..Len(calls) : CallbackCompletes(i)

SpecMemory == Init /\ [][NextMemory]_vars

\* The CLI validator: one run of the command, or one call of validateEvent
\* and of getResults on a validator object.
InitCLI ==
    /\ resolvers = <<>>
    /\ regLog = <<>>
    /\ calls = <<>>
    /\ invoked = <<>>
    /\ memoryEvents = <<>>
    /\ validator = NoValidator
    /\ exitCode = -1
    /\ \/ process \in ProcessInputs /\ query = NoQuery
       \/ /\ process = NoProcess
          /\ query \in {[NoQuery EXCEPT !.op = "call validateEvent", !.event = e] :
                           e \in CliEventInputs}

NextCLI ==
    \/ Main
    \/ StdinEnd
    \/ query.op = "call validateEvent" /\ ValidateEvent(query.event)
    \/ GetResults

SpecCLI == InitCLI /\ [][NextCLI]_vars

(***************************************************************************)
(* Properties                                                              *)
(***************************************************************************)
\* The error kinds the design names, by the message the code throws.
ErrorKind(e) ==
    CASE e.rule \in {"InvalidURIFormat", "URISegments", "DateFormat",
                     "InvalidTimestamp", "InvalidType", "InvalidSource",
                     "InvalidTitle", "InvalidLinkedURI"} -> "FormatError"
      [] e.rule = "MissingField" -> "MissingFieldError"
      [] e.rule \in {"InvalidMood", "InvalidDuration"} -> "RangeError"
      [] e.rule = "NoResolver" -> "ResolverNotFoundError"
      [] e.rule = "FailedToResolve" -> "ResolutionError"
      [] e.rule = "MissingComponents" -> "ValidationError"
      [] e.rule = "" -> "none"
      [] OTHER -> e.name

\* Components that are valid: a date of the form YYYY-MM-DD and a non-empty
\* source, type and slug, all of them strings.
ValidComponents(c) ==
    /\ c.date.t = "string" /\ IsDateFormat(c.date.s)
    /\ \A f \in {"source", "type", "slug"} : c[f].t = "string" /\ Len(c[f].s) > 0

\* A string without characters that encodeURIComponent escapes.
NoReservedCharacters(str) == \A i \in 1..Len(str) : IsUnreserved(str[i])

NoSlash(str) == 47 \notin Range(str)

\* parseURI accepted the URI and found these components in it.
ParsedAs(parsed, c) ==
    /\ parsed.ok
    /\ parsed.date = c.date.s
    /\ parsed.source = c.source.s
    /\ parsed.type = c.type.s
    /\ parsed.slug = c.slug.s

\* C1 as stated: for all valid components whose slug has no reserved
\* characters, parseURI(generateURI(c)) yields the date, source, type and slug
\* of c.
C1_RoundTripAsStated ==
    (/\ query.op = "parseGenerated"
     /\ ValidComponents(query.comps)
     /\ NoReservedCharacters(query.comps.slug.s))
    => ParsedAs(query.parsed, query.comps)

\* C1 amended: for all valid components whose slug has no reserved characters
\* and whose source and type contain no '/', parseURI(generateURI(c)) yields
\* the date, source, type and slug of c.
C1_RoundTrip ==
    (/\ query.op = "parseGenerated"
     /\ ValidComponents(query.comps)
     /\ NoReservedCharacters(query.comps.slug.s)
     /\ NoSlash(query.comps.source.s)
     /\ NoSlash(query.comps.type.s))
    => ParsedAs(query.parsed, query.comps)

\* C1's case: a URI generated from valid components with a two-unit slug free
\* of reserved characters and a source holding '%' has been parsed back.
C1_Witness ==
    /\ query.op = "parseGenerated"
    /\ ValidComponents(query.comps)
    /\ NoReservedCharacters(query.comps.slug.s)
    /\ Len(query.comps.slug.s) = 2
    /\ query.comps.source.s = <<37>>
    /\ NoSlash(query.comps.type.s)
    /\ query.parsed.ok

\* C2 as stated: parseURI does not fail on any URI that generateURI returned.
C2_ParseGeneratedAsStated ==
    query.op = "parseGenerated" => query.parsed.ok

\* C2 amended: parseURI does not fail on a URI that generateURI returned for
\* components that are all strings and whose source and type contain no '/',
\* whatever the slug holds.
C2_ParseGenerated ==
    (/\ query.op = "parseGenerated"
     /\ \A f \in {"date", "source", "type", "slug"} : query.comps[f].t = "string"
     /\ NoSlash(query.comps.source.s)
     /\ NoSlash(query.comps.type.s))
    => query.parsed.ok

\* C2's case: a URI generated from a slug that holds '/' or '%' has been
\* parsed back.
C2_Witness ==
    /\ query.op = "parseGenerated"
    /\ \A f \in {"date", "source", "type", "slug"} : query.comps[f].t = "string"
    /\ NoSlash(query.comps.source.s)
    /\ NoSlash(query.comps.type.s)
    /\ {47, 37} \subseteq Range(query.comps.slug.s)
    /\ query.parsed.ok
    /\ query.parsed.slug = query.comps.slug.s

\* The call that began in this step, when one did.
CallBegan == Len(calls') = Len(calls) + 1
NewCall == calls'[Len(calls')]

\* C3: a resolveURI call with a well-formed URI whose source has no
\* registered resolver is rejected with the resolver-not-found error naming
\* that source, unwrapped, and no callback is invoked in the call.
C3_ResolverNotFound ==
    [][ CallBegan =>
          LET parsed == parseURI(Str(NewCall.uri))
          IN (parsed.ok /\ ~hasResolver(resolvers, parsed.source)) =>
                /\ NewCall.state = "rejected"
                /\ ErrorKind(NewCall.err) = "ResolverNotFoundError"
                /\ NewCall.err.arg = parsed.source
                /\ invoked' = invoked ]_vars

\* C3's case: resolveURI of a URI of source "s" was rejected for want of a
\* resolver while source "t" has one, and no callback has run.
C3_Witness ==
    /\ \E i \in 1..Len(calls) :
          /\ calls[i].state = "rejected"
          /\ calls[i].err.rule = "NoResolver"
          /\ calls[i].err.arg = <<115>>
    /\ hasResolver(resolvers, <<116>>)
    /\ invoked = <<>>

\* The error is the catch block's: it carries the URI and that message.
Wraps(err, uri, cause) ==
    /\ ErrorKind(err) = "ResolutionError"
    /\ err.uri = uri
    /\ err.cause = cause.rule
    /\ err.arg = cause.arg

\* The callback of the call was invoked and has completed.
Completed(c) == c.state # "pending" /\ c.resolver # Undefined

FollowsValidatorRules(e) ==
    /\ e.kind = "object"
    /\ \A i \in 1..Len(RequiredFields) : e[RequiredFields[i]] # Undefined
    /\ e.timestamp.t = "string" /\ IsTimestampFormat(e.timestamp.s)
    /\ e.type.t = "string" /\ IsTypeFormat(e.type.s)
    /\ e.source.t = "string" /\ Len(e.source.s) > 0
    /\ e.title.t = "string" /\ Len(e.title.s) > 0
    /\ e.linked_uris # Undefined =>
          /\ e.linked_uris.t = "array"
          /\ \A k \in 1..Len(e.linked_uris.a) :
                /\ e.linked_uris.a[k].t = "string"
                /\ StartsWith(e.linked_uris.a[k].s, LifePrefix)
    /\ e.mood # Undefined => IsInteger(e.mood) /\ e.mood.n \in 1..10
    /\ e.duration # Undefined => IsInteger(e.duration) /\ e.duration.n >= 0

\* C5: the event a fulfilled resolveURI call returns is the value its
\* callback returned, unchanged, and it follows every rule of the validator.
C5_ReturnedEventValid ==
    \A i \in 1..Len(calls) :
        calls[i].state = "fulfilled" =>
            /\ calls[i].value = calls[i].returned
            /\ \E o \in CallbackOutcomes(calls[i].resolver) :
                  ~o.threw /\ o.event = calls[i].value
            /\ FollowsValidatorRules(calls[i].value)

\* The function of the most recent registerResolver call for the source that
\* returned without error, or undefined when there is none.
LastRegistered(log, source) ==
    LET done == {i \in 1..Len(log) : log[i].source = source /\ log[i].err = NoError}
    IN IF done = {} THEN Undefined
       ELSE log[CHOOSE i \in done : \A j \in done : j <= i].resolver

\* C6: last registration wins.  After every step the registry holds, for each
\* source, the function of the most recent successful registerResolver call;
\* a call fails exactly when its value is no function, also for a source
\* already registered, and a failed call leaves the registry as it was; and
\* the callback a resolveURI call looks up is the one most recently
\* registered for the source of its URI.
C6_LastRegistrationWins ==
    [][ /\ \A s \in RegistrySources :
              MapGet(resolvers', s) = LastRegistered(regLog', s)
        /\ \A i \in 1..Len(regLog') :
              (regLog'[i].err = NoError) <=> (regLog'[i].resolver.t = "function")
        /\ (Len(regLog') = Len(regLog) + 1 /\ regLog'[Len(regLog')].err # NoError) =>
              resolvers' = resolvers
        /\ CallBegan =>
              LET parsed == parseURI(Str(NewCall.uri))
              IN parsed.ok =>
                    NewCall.resolver = LastRegistered(regLog, parsed.source) ]_vars

\* C6's case: source "s" was registered with function 1 and then with
\* function 2, and a resolveURI call has looked up function 2.
C6_Witness ==
    /\ Len(regLog) = 2
    /\ regLog[1].source = <<115>> /\ regLog[1].resolver = Fn(1)
    /\ regLog[2].source = <<115>> /\ regLog[2].resolver = Fn(2)
    /\ \E i \in 1..Len(calls) : calls[i].resolver = Fn(2)

\* The sources for which a registerResolver call with a function was made.
RegisteredSources ==
    {regLog[i].source : i \in {j \in 1..Len(regLog) : regLog[j].resolver.t = "function"}}

\* C7: the registry starts empty; in every state hasResolver(s) holds exactly
\* for the sources registered with a function so far and
\* getRegisteredSources lists exactly those, each once; only a
\* registerResolver call changes the mapping, and no entry is ever removed.
C7_RegistryInvariant ==
    /\ resolvers = <<>>
    /\ [](/\ \A s \in RegistrySources :
                hasResolver(resolvers, s) <=> s \in RegisteredSources
          /\ Range(getRegisteredSources(resolvers)) = RegisteredSources
          /\ Len(getRegisteredSources(resolvers)) = Cardinality(RegisteredSources)
          /\ query.op = "hasResolver" =>
                (query.flag <=> query.arg.s \in RegisteredSources)
          /\ query.op = "getRegisteredSources" =>
                /\ Range(query.list) = RegisteredSources
                /\ Len(query.list) = Cardinality(RegisteredSources))
    /\ [][ /\ regLog' = regLog => resolvers' = resolvers
           /\ Range(getRegisteredSources(resolvers))
                 \subseteq Range(getRegisteredSources(resolvers')) ]_vars

\* C7's case: getRegisteredSources has listed two sources, and one resolveURI
\* call is pending while another has completed.
C7_Witness ==
    /\ query.op = "getRegisteredSources"
    /\ Len(query.list) = 2
    /\ \E i \in 1..Len(calls) : calls[i].state = "pending"
    /\ \E i \in 1..Len(calls) : calls[i].state = "fulfilled"

\* The required fields the event does not have.
MissingFields(e) == {f \in Range(RequiredFields) : e[f] = Undefined}

\* The required field has a valid value.
RequiredFieldValid(e, f) ==
    CASE f = "timestamp" -> e.timestamp.t = "string" /\ IsTimestampFormat(e.timestamp.s)
      [] f = "type" -> e.type.t = "string" /\ IsTypeFormat(e.type.s)
      [] OTHER -> e[f].t = "string" /\ Len(e[f].s) > 0

\* validateLifeEvent has just been applied to an object.
Validated == query.op = "validateLifeEvent" /\ query.event.kind = "object"

\* C8: validateLifeEvent fails with a MissingFieldError naming a missing field
\* for every event in which one of timestamp, source, type, title is
\* missing, whatever the other fields are.
C8_MissingFieldNamed ==
    (Validated /\ MissingFields(query.event) # {}) =>
        /\ ErrorKind(query.err) = "MissingFieldError"
        /\ \E f \in MissingFields(query.event) : query.err.arg = FieldName(f)

\* C9: an event whose source (title) is the empty string and whose other
\* required fields are valid is rejected by the 'Invalid source' ('Invalid
\* title') rule, a FormatError, not by the missing-field rule.
C9_EmptyStringIsFormatError ==
    Validated =>
        \A f \in {"source", "title"} :
            (/\ query.event[f] = Str(<<>>)
             /\ \A g \in Range(RequiredFields) \ {f} : RequiredFieldValid(query.event, g))
            => /\ ErrorKind(query.err) = "FormatError"
               /\ query.err.rule = (IF f = "source" THEN "InvalidSource" ELSE "InvalidTitle")

\* The event is valid but for its linked_uris.
OtherwiseValid(e) ==
    /\ \A g \in Range(RequiredFields) : RequiredFieldValid(e, g)
    /\ e.mood # Undefined => IsInteger(e.mood) /\ e.mood.n \in 1..10
    /\ e.duration # Undefined => IsInteger(e.duration) /\ e.duration.n >= 0

\* C10: an otherwise valid event whose linked_uris is present and no
\* sequence, or is a sequence with an element that does not start with
\* "life://", is rejected with a FormatError.
C10_LinkedURIsChecked ==
    (/\ Validated
     /\ OtherwiseValid(query.event)
     /\ query.event.linked_uris # Undefined
     /\ \/ query.event.linked_uris.t # "array"
        \/ \E k \in 1..Len(query.event.linked_uris.a) :
              \/ query.event.linked_uris.a[k].t # "string"
              \/ ~StartsWith(query.event.linked_uris.a[k].s, LifePrefix))
    => ErrorKind(query.err) = "FormatError"

\* The linked_uris of the event is absent or a sequence of strings that
\* start with "life://".
LinkedURIsValid(e) ==
    \/ e.linked_uris = Undefined
    \/ /\ e.linked_uris.t = "array"
       /\ \A k \in 1..Len(e.linked_uris.a) :
             /\ e.linked_uris.a[k].t = "string"
             /\ StartsWith(e.linked_uris.a[k].s, LifePrefix)

\* The event is valid but for its mood.
ValidButMood(e) ==
    /\ \A g \in Range(RequiredFields) : RequiredFieldValid(e, g)
    /\ LinkedURIsValid(e)
    /\ e.duration # Undefined => IsInteger(e.duration) /\ e.duration.n >= 0

\* C11: for an event whose other fields are valid, validateLifeEvent accepts
\* every integer mood from 1 to 10 and an absent mood, and fails with a
\* RangeError for 0, 11 and every other integer outside [1,10].
C11_MoodBoundary ==
    (Validated /\ ValidButMood(query.event)) =>
        /\ query.event.mood = Undefined => query.err = NoError
        /\ IsInteger(query.event.mood) =>
              IF query.event.mood.n \in 1..10
              THEN query.err = NoError
              ELSE /\ ErrorKind(query.err) = "RangeError"
                   /\ query.err.rule = "InvalidMood"

\* validateLifeEvent has rejected mood = 0 of an otherwise valid event.
C11_Witness ==
    /\ Validated
    /\ ValidButMood(query.event)
    /\ query.event.mood = Num(0)
    /\ query.err.rule = "InvalidMood"

\* validateLifeOSEvent has just returned a result for the event.
PackageValidated == query.op = "validateLifeOSEvent" /\ query.err = NoError

\* C12: validateLifeOSEvent validates the mood range 1-10: for every event
\* whose mood is a number outside [1,10], 0 and negative values included,
\* the result has isValid = false and holds the error 'Mood must be between
\* 1 and 10'; and isValid is true exactly when the list of errors is empty.
C12_PackageMoodRange ==
    PackageValidated =>
        /\ query.flag <=> query.errors = <<>>
        /\ (query.event.mood.t = "number" /\ ~IsNaN(query.event.mood)
              /\ (LessThan(query.event.mood, 1) \/ GreaterThan(query.event.mood, 10)))
           => /\ ~query.flag
              /\ "Mood must be between 1 and 10" \in Range(query.errors)

\* C13: empty path segments are discarded, so for any URI that parseURI
\* accepts, extra '/' characters between, before or after its segments give
\* a URI that parseURI also accepts, with the same date, source, type and
\* slug.
C13_SegmentTolerance ==
    query.op = "parseURI" =>
        \A segs \in SegmentInputs :
            LET plain == parseURI(Str(Slashed(segs, [k \in 0..Len(segs) |-> 0])))
            IN (/\ plain.ok
                /\ \E extra \in ExtraSlashes(segs) : query.arg = Str(Slashed(segs, extra)))
               => /\ query.parsed.ok
                  /\ query.parsed.date = plain.date
                  /\ query.parsed.source = plain.source
                  /\ query.parsed.type = plain.type
                  /\ query.parsed.slug = plain.slug

\* parseURI has accepted "life:///2025-07-09//s//a.b//x//y/", with one more
\* slash at every place, as the URI of slug "x/y".
C13_Witness ==
    /\ query.op = "parseURI"
    /\ query.arg = Str(Slashed(<<DateOK, <<115>>, TypeOK, <<120>>, <<121>>>>,
                               [k \in 0..5 |-> 1]))
    /\ query.parsed.ok
    /\ query.parsed.slug = <<120,47,121>>
    /\ query.parsed.source = <<115>>

\* The non-empty segments of what follows "life://" in a string.
NonEmptySegments(str) ==
    FilterNonEmpty(Split(SubSeq(str, Len(LifePrefix) + 1, Len(str)), 47))

\* C14: parseURI validates no source, type or slug content: every string
\* that starts with "life://", has at least four non-empty segments and
\* whose first segment matches YYYY-MM-DD is accepted, whatever its source,
\* type and slug segments hold, a '%' that begins no well-formed escape
\* included.
C14_NoContentValidation ==
    (/\ query.op = "parseURI"
     /\ query.arg.t = "string"
     /\ StartsWith(query.arg.s, LifePrefix)
     /\ Len(NonEmptySegments(query.arg.s)) >= 4
     /\ IsDateFormat(NonEmptySegments(query.arg.s)[1]))
    => query.parsed.ok

\* C15: a callback is invoked only by a resolveURI call, and it is the one
\* registered for the URI's parsed source; a call invokes it once when
\* parsing and lookup succeeded and never otherwise, also when the same URI
\* was resolved before; and a call that invoked its callback stays pending
\* until the callback has completed, and settles with what the callback
\* threw or handed back.
C15_InvocationDiscipline ==
    /\ [](\A i \in 1..Len(calls) :
            /\ Cardinality({k \in 1..Len(invoked) : invoked[k].call = i})
                 = (IF calls[i].resolver # Undefined THEN 1 ELSE 0)
            /\ Completed(calls[i]) =>
                  \E o \in CallbackOutcomes(calls[i].resolver) :
                      IF o.threw THEN calls[i].threw
                      ELSE ~calls[i].threw /\ calls[i].returned = o.event)
    /\ [][ /\ ~CallBegan => invoked' = invoked
           /\ CallBegan =>
                LET parsed == parseURI(Str(NewCall.uri))
                IN IF parsed.ok /\ hasResolver(resolvers, parsed.source)
                   THEN /\ Len(invoked') = Len(invoked) + 1
                        /\ SubSeq(invoked', 1, Len(invoked)) = invoked
                        /\ invoked'[Len(invoked')].fn
                             = LastRegistered(regLog, parsed.source)
                        /\ invoked'[Len(invoked')].call = Len(calls')
                        /\ NewCall.state = "pending"
                   ELSE invoked' = invoked /\ NewCall.state = "rejected"
           /\ \A i \in 1..Len(calls) :
                 calls'[i] # calls[i] =>
                     /\ calls[i].state = "pending"
                     /\ calls'[i].state # "pending"
                     /\ invoked' = invoked ]_vars

\* C15's case: the same URI was resolved twice, its callback was invoked
\* once by each call, and the first call has completed while the second is
\* still pending.
C15_Witness ==
    /\ Len(calls) = 2
    /\ calls[1].uri = calls[2].uri
    /\ Len(invoked) = 2
    /\ invoked[1].call = 1 /\ invoked[2].call = 2
    /\ invoked[1].fn = invoked[2].fn
    /\ calls[1].state = "fulfilled"
    /\ calls[2].state = "pending"

\* What C16 says of the resolveURI call that begins in this step, for the
\* components c: with the memory resolver registered for c.source, the call
\* awaits the event stored under the key of c, or the not-found error when
\* the key is absent.
MemoryCallBegins(c) ==
    (/\ generateURI(c).ok
     /\ NewCall.uri = generateURI(c).uri
     /\ MapGet(resolvers, c.source.s) = MemoryFn)
    => /\ NewCall.state = "pending"
       /\ NewCall.settled
       /\ IF MapHas(memoryEvents, KeyOf(c))
          THEN /\ ~NewCall.promise.threw
               /\ NewCall.promise.event = MapGet(memoryEvents, KeyOf(c))
          ELSE /\ NewCall.promise.threw
               /\ NewCall.promise.err.rule = "EventNotFound"

\* A call on the memory resolver that has completed returned the event it
\* awaited, or failed with the not-found error wrapped.
MemoryCallsSettle ==
    \A i \in 1..Len(calls) :
        (calls[i].settled /\ calls[i].state # "pending") =>
            IF calls[i].promise.threw
            THEN /\ calls[i].state = "rejected"
                 /\ Wraps(calls[i].err, calls[i].uri, calls[i].promise.err)
            ELSE /\ calls[i].state = "fulfilled"
                 /\ calls[i].value = calls[i].promise.event

\* C16 as stated: for all components c, with memoryResolver(map) registered
\* for c.source, resolveURI(generateURI(c)) returns the event that map holds
\* under the key date/source/type/slug of c, also when it was stored after
\* the registration, and fails with a ResolutionError wrapping the not-found
\* error when the key is absent.
C16_MemoryResolveAsStated ==
    /\ []MemoryCallsSettle
    /\ [][CallBegan => \A c \in MemoryComponentInputs : MemoryCallBegins(c)]_vars

\* C16 for components whose source and type hold no '/'.
C16_MemoryResolve ==
    /\ []MemoryCallsSettle
    /\ [][CallBegan =>
            \A c \in MemoryComponentInputs :
                (NoSlash(c.source.s) /\ NoSlash(c.type.s)) => MemoryCallBegins(c)]_vars

\* C16's case: the URI of slug "a+b" was resolved twice through the memory
\* resolver; the first call failed for want of the key, and the second,
\* made after the event was stored, returned the event.
C16_Witness ==
    /\ Len(calls) = 2
    /\ calls[1].uri = calls[2].uri
    /\ calls[1].state = "rejected"
    /\ calls[1].err.rule = "FailedToResolve"
    /\ calls[1].err.cause = "EventNotFound"
    /\ calls[2].state = "fulfilled"
    /\ \E c \in MemoryComponentInputs :
          /\ calls[2].uri = generateURI(c).uri
          /\ calls[2].value = EventOf(c)

\* The CLI process has read and parsed an event, validated it and exited.
RanValidation ==
    process.at = "exited" /\ process.args > 0 /\ process.input = "json"

\* C17: validateEvent returns true, getResults().valid is true and the exit
\* code is 0 exactly when no error was recorded for the event, whatever
\* warnings were recorded; and the exit code is 1 when the event is invalid
\* or the input cannot be read or parsed.
C17_CLIVerdict ==
    /\ query.op = "validateEvent" =>
          ((query.err = NoError /\ query.flag) <=> validator.errors = <<>>)
    /\ query.op = "getResults" => (query.flag <=> validator.errors = <<>>)
    /\ RanValidation => (exitCode = 0 <=> validator.errors = <<>>)
    /\ RanValidation => (exitCode = 1 <=> validator.errors # <<>>)
    /\ (process.at = "exited" /\ process.args > 0 /\ process.input # "json") =>
          exitCode = 1

\* The linked_uris of the event is a sequence of strings that start with
\* "life://", one of which parseURI does not accept.
HasUnparsableLink(e) ==
    /\ e.linked_uris.t = "array"
    /\ \A k \in 1..Len(e.linked_uris.a) :
          /\ e.linked_uris.a[k].t = "string"
          /\ StartsWith(e.linked_uris.a[k].s, LifePrefix)
    /\ \E k \in 1..Len(e.linked_uris.a) :
          \/ Len(NonEmptySegments(e.linked_uris.a[k].s)) < 4
          \/ ~IsDateFormat(NonEmptySegments(e.linked_uris.a[k].s)[1])

\* C18: an otherwise valid event whose linked_uris holds a string that
\* starts with "life://" but is no full URI (fewer than four segments, or a
\* malformed date) is accepted by validateLifeEvent and reported as an error
\* by validateEvent; and every event that validateEvent reports valid is
\* accepted by validateLifeEvent.
C18_LinkedURIStrictness ==
    query.op = "validateEvent" =>
        /\ (OtherwiseValid(query.event) /\ HasUnparsableLink(query.event)) =>
              /\ validateLifeEvent(query.event) = NoError
              /\ query.err = NoError
              /\ ~query.flag
              /\ "Invalid linked URI" \in Range(validator.errors)
        /\ (query.err = NoError /\ query.flag) =>
              validateLifeEvent(query.event) = NoError

\* validateEvent has reported the link "life://x" of an event that
\* validateLifeEvent accepts.
C18_Witness ==
    /\ query.op = "validateEvent"
    /\ query.event.linked_uris = Arr(<<Str(LifePrefix \o <<120>>)>>)
    /\ validateLifeEvent(query.event) = NoError
    /\ ~query.flag
    /\ validator.errors = <<"Invalid linked URI">>

\* The call settled as its URI and the outcome of its callback determine:
\* rejected with the callback's error wrapped, rejected with the validator's
\* error wrapped, or fulfilled with the event the callback handed back.
SettledBy(c, o) ==
    IF o.threw
    THEN c.state = "rejected" /\ Wraps(c.err, c.uri, o.err)
    ELSE IF validateLifeEvent(o.event) # NoError
    THEN c.state = "rejected" /\ Wraps(c.err, c.uri, validateLifeEvent(o.event))
    ELSE c.state = "fulfilled" /\ c.value = o.event

\* C19: resolveURI looks its callback up before it suspends, so a
\* registerResolver call made while a resolve is suspended changes neither
\* the callback that resolve awaits nor any call, and each of several
\* interleaved calls settles as its own URI, the callback it captured and
\* that callback's result determine.
C19_ResolveRegisterInterleaving ==
    [][ /\ \A i \in 1..Len(calls) :
              /\ calls'[i].uri = calls[i].uri
              /\ calls'[i].resolver = calls[i].resolver
              /\ (calls[i].state = "pending" /\ calls'[i].state # "pending") =>
                    /\ \E o \in CallbackOutcomes(calls[i].resolver) :
                          SettledBy(calls'[i], o)
                    /\ \A j \in (1..Len(calls)) \ {i} : calls'[j] = calls[j]
        /\ resolvers' # resolvers => calls' = calls /\ invoked' = invoked
        /\ CallBegan =>
              LET parsed == parseURI(Str(NewCall.uri))
              IN NewCall.resolver = (IF parsed.ok THEN MapGet(resolvers, parsed.source)
                                     ELSE Undefined) ]_vars

\* C19's case: a resolve of source "s" captured function 1 and is still
\* suspended, function 2 has since been registered for "s", and a second
\* resolve of the same URI has captured function 2 and was fulfilled with
\* its event.
C19_Witness ==
    /\ Len(calls) = 2
    /\ calls[1].uri = calls[2].uri
    /\ calls[1].state = "pending"
    /\ calls[1].resolver = Fn(1)
    /\ MapGet(resolvers, <<115>>) = Fn(2)
    /\ calls[2].resolver = Fn(2)
    /\ calls[2].state = "fulfilled"
    /\ calls[2].value.title = Str(<<50>>)

\* generateURI has been applied to what parseURI returned, and parseURI to
\* what generateURI returned: both succeeded, and the second parse gives the
\* components of the first.
Canonical ==
    /\ query.op = "generateParsed" => query.err = NoError
    /\ query.op = "parseRegenerated" =>
          /\ query.parsed.ok
          /\ query.parsed.date = query.comps.date.s
          /\ query.parsed.source = query.comps.source.s
          /\ query.parsed.type = query.comps.type.s
          /\ query.parsed.slug = query.comps.slug.s

\* The string holds no surrogate that is not one of a pair.
NoLoneSurrogate(str) ==
    \A i \in 1..Len(str) :
        /\ IsHighSurrogate(str[i]) => (i < Len(str) /\ IsLowSurrogate(str[i + 1]))
        /\ IsLowSurrogate(str[i]) => (i > 1 /\ IsHighSurrogate(str[i - 1]))

\* C20 as stated: for every string u that parseURI accepts,
\* generateURI(parseURI(u)) succeeds, and parsing the generated URI gives
\* the date, source, type and slug of parseURI(u), also for a slug of
\* several segments.
C20_CanonicalisationAsStated == Canonical

\* C20 for the strings u whose parsed slug holds no lone surrogate.
C20_Canonicalisation ==
    (query.op \in {"generateParsed", "parseRegenerated"}
       /\ NoLoneSurrogate(query.comps.slug.s)) => Canonical

\* "life://2025-07-09/s/a.b/x/y" was parsed, generated again as
\* "life://2025-07-09/s/a.b/x%2Fy" and parsed again with the slug "x/y".
C20_Witness ==
    /\ query.op = "parseRegenerated"
    /\ query.comps.slug = Str(<<120,47,121>>)
    /\ query.str = URI(DateOK, <<115>>, TypeOK, <<120,37,50,70,121>>)
    /\ query.parsed.ok
    /\ query.parsed.slug = <<120,47,121>>

\* The event has a type of the standard taxonomy.
HasTaxonomyType(e) ==
    /\ e.type.t = "string"
    /\ \E k \in 1..Len(getAllEventTypesList) : e.type.s = getAllEventTypesList[k]

\* The event is valid in every field other than its type.
ValidButType(e) ==
    /\ \A g \in Range(RequiredFields) \ {"type"} : RequiredFieldValid(e, g)
    /\ LinkedURIsValid(e)
    /\ e.mood # Undefined => IsInteger(e.mood) /\ e.mood.n \in 1..10
    /\ e.duration # Undefined => IsInteger(e.duration) /\ e.duration.n >= 0

\* C21: every type of the standard taxonomy (every element of
\* getAllEventTypesList) matches the type-format pattern
\* ^[a-z]+\.[a-z]+$, and validateLifeEvent accepts every otherwise valid
\* event that carries such a type.
C21_TaxonomyTypesAccepted ==
    (Validated /\ HasTaxonomyType(query.event)) =>
        /\ IsTypeFormat(query.event.type.s)
        /\ ValidButType(query.event) => query.err = NoError

\* The same for the taxonomy types written without '_': these are accepted.
C21_LowercaseTaxonomyTypesAccepted ==
    (Validated /\ HasTaxonomyType(query.event)
       /\ 95 \notin Range(query.event.type.s)) =>
        /\ IsTypeFormat(query.event.type.s)
        /\ ValidButType(query.event) => query.err = NoError

=============================================================================
